---- MODULE Spec2Model ----
(***************************************************************************)
(* A model of scripts/permute_tlids.py: the within-block permutation of    *)
(* segment keys (permute_houses), the per-iteration empirical p-values     *)
(* (find_p_vals) and their average over the iterations (average_pvals).    *)
(*                                                                         *)
(* A DataFrame is a function from column names to columns; a column is a   *)
(* sequence with one entry per row.  A grouped table (the result of        *)
(* groupby(...).mean()) is a record [index, cols]: the sorted group keys   *)
(* and, per column name, one entry per key.  A mean and a p-value are      *)
(* kept as exact fractions <<numerator, denominator>>; NaN is the float    *)
(* pandas gives for the mean of no values.                                 *)
(***************************************************************************)
EXTENDS Integers, Sequences, FiniteSets, TLC

\* ---------------------------------------------------------------- bounds
MaxRows == 3
MaxIter == 2
MaxSeed == 1
RngStates == 6

BLKIDs == {1, 2}
TLIDs == {1, 2, 3}

\* The tracked variables, in the order the loops visit them.
VarNames == <<"A", "B", "C", "D", "E">>

VarSet == {VarNames[n] : n \in 1..Len(VarNames)}

\* The values of the variables A..E: households with an odd MAFID carry
\* the first row of values, those with an even MAFID the second.
Profiles ==
  << [A |-> 1, B |-> -2, C |-> 0, D |-> 3, E |-> -1],
     [A |-> -3, B |-> 1, C |-> 0, D |-> -3, E |-> 2] >>

\* Values that are no fraction: the float NaN, and the exception a
\* division by zero raises.  Both are tuples, as fractions are.
NaN == <<"NaN">>

ZeroDivisionError == <<"ZeroDivisionError">>

VARIABLES
  data,        \* the household table (mutated in place by permute_houses)
  input,       \* the household table as it was handed to the call
  iterations,  \* the iteration count N of the find_p_vals call
  npRandom,    \* state of numpy's global generator (np.random)
  pyRandom,    \* state of the standard library's global generator (random)
  aggs,        \* find_p_vals: the true aggregate, growing p-value columns
  synth_aggs,  \* find_p_vals: the permuted aggregate of the last iteration
  i,           \* find_p_vals: the loop counter
  pc,          \* where the call stands
  err,         \* the exception that ended the call, or "none"
  pval_df,     \* the table handed to a direct average_pvals call
  k            \* the iteration count of a direct average_pvals call

vars == <<data, input, iterations, npRandom, pyRandom, aggs, synth_aggs, i,
          pc, err, pval_df, k>>

\* ------------------------------------------------------- column names
\* A column name that does not depend on the seed.
PermColFixed(seed) == "TLID_permuted"

PermCol(seed) == "TLID_permuted_" \o ToString(seed)

PValCol(col, n) == col \o "_p_" \o ToString(n)

AvgCol(col) == col \o "_avg_p"

\* -------------------------------------------------------- arithmetic
Abs(x) == IF x < 0 THEN -x ELSE x

\* |a| > |b| for two means a = <<sum, count>>, b = <<sum, count>>.
AbsGreater(a, b) == Abs(a[1]) * b[2] > Abs(b[1]) * a[2]

RECURSIVE SumNum(_, _)
SumNum(fs, den) ==
  IF fs = <<>> THEN 0
  ELSE (Head(fs)[1] * (den \div Head(fs)[2])) + SumNum(Tail(fs), den)

RECURSIVE ProdDen(_)
ProdDen(fs) == IF fs = <<>> THEN 1 ELSE Head(fs)[2] * ProdDen(Tail(fs))

\* The sum of a row of fractions, where the mean was meant.
RowSum(fs) ==
  IF fs = <<>> THEN NaN
  ELSE <<SumNum(fs, ProdDen(fs)), ProdDen(fs)>>

\* The arithmetic mean of a row of fractions; NaN for an empty row.
RowMean(fs) ==
  IF fs = <<>> THEN NaN
  ELSE <<SumNum(fs, ProdDen(fs)), Len(fs) * ProdDen(fs)>>

\* ------------------------------------------------- random generators
\* Both generators are deterministic functions of their state: seeding
\* sets the state, every draw advances it.  The state is a counter over
\* RngStates values and a draw from 0..hi is the state modulo hi + 1, so
\* that the states between them yield every permutation of three keys.
RngStep(st) == (st + 1) % RngStates

RngSeed(seed) == seed % RngStates

\* A draw from 0..hi out of state st.
RngInterval(st, hi) == st % (hi + 1)

\* A swap that loses the element at position a.
SwapCopy(x, a, b) ==
  [n \in 1..Len(x) |-> IF n = a THEN x[b] ELSE x[n]]

Swap(x, a, b) ==
  [n \in 1..Len(x) |-> IF n = a THEN x[b] ELSE IF n = b THEN x[a] ELSE x[n]]

\* np.random.permutation(x): a shuffled copy of x (Fisher-Yates from the
\* last position down), and the generator state after it.
RECURSIVE Shuffle(_, _, _)
Shuffle(x, n, st) ==
  IF n <= 1 THEN [out |-> x, st |-> st]
  ELSE Shuffle(Swap(x, n, RngInterval(st, n - 1) + 1), n - 1, RngStep(st))

NpPermutation(x, st) == Shuffle(x, Len(x), st)

\* ------------------------------------------------------- data frames
NRows(df) == Len(df["TLID"])

WithColumn(df, name, col) ==
  [c \in DOMAIN df \cup {name} |-> IF c = name THEN col ELSE df[c]]

Range(s) == {s[n] : n \in 1..Len(s)}

RECURSIVE SortedSeq(_)
SortedSeq(S) ==
  IF S = {} THEN <<>>
  ELSE LET m == CHOOSE x \in S : \A y \in S : x <= y
       IN <<m>> \o SortedSeq(S \ {m})

\* The rows of a group, in row order.
RECURSIVE RowsOf(_, _, _)
RowsOf(col, key, n) ==
  IF n > Len(col) THEN <<>>
  ELSE (IF col[n] = key THEN <<n>> ELSE <<>>) \o RowsOf(col, key, n + 1)

RECURSIVE SumOver(_, _)
SumOver(col, rows) ==
  IF rows = <<>> THEN 0 ELSE col[Head(rows)] + SumOver(col, Tail(rows))

\* df[[keycol, A..E]].groupby([keycol]).mean()
GroupMean(df, keycol) ==
  LET keys == SortedSeq(Range(df[keycol]))
  IN [index |-> keys,
      cols |-> [c \in VarSet |->
                 [n \in 1..Len(keys) |->
                    LET rows == RowsOf(df[keycol], keys[n], 1)
                    IN <<SumOver(df[c], rows), Len(rows)>>]]]

\* ---------------------------------------------------- permute_houses
\* A transform that is handed the whole column for every block.
GroupRowsAll(df, key) == [n \in 1..NRows(df) |-> n]

\* The rows groupby('BLKID') hands to the transform for one block.
GroupRows(df, key) == RowsOf(df["BLKID"], key, 1)

\* groupby('BLKID')['TLID'].transform(np.random.permutation): the blocks
\* are visited in key order, each block's TLIDs are shuffled and written
\* back to the block's rows; col is the column built so far.
RECURSIVE TransformGroups(_, _, _, _)
TransformGroups(keys, df, col, st) ==
  IF keys = <<>> THEN [col |-> col, st |-> st]
  ELSE LET rows == GroupRows(df, Head(keys))
           vals == [n \in 1..Len(rows) |-> df["TLID"][rows[n]]]
           p == NpPermutation(vals, st)
           col2 == [r \in 1..Len(col) |->
                      IF \E n \in 1..Len(rows) : rows[n] = r
                      THEN p.out[CHOOSE n \in 1..Len(rows) : rows[n] = r]
                      ELSE col[r]]
       IN TransformGroups(Tail(keys), df, col2, p.st)

Transform(df, st) ==
  TransformGroups(SortedSeq(Range(df["BLKID"])), df, df["TLID"], st)

\* permute_houses(dem_data, seed) on the table held in data.  Line 26
\* seeds the generator of the random module; line 27 draws the
\* permutations from numpy's generator, which that seeding does not touch,
\* and writes the new column into the table in place.
PermuteHouses(dem_data, seed) ==
  /\ pyRandom' = RngSeed(seed)
  /\ npRandom' = Transform(dem_data, npRandom).st
  /\ data' = WithColumn(dem_data, PermCol(seed),
                        Transform(dem_data, npRandom).col)

\* ----------------------------------------------------- average_pvals
\* The column names of range(1, n + 1).
PValColsFromOne(col, n) == [j \in 1..n |-> PValCol(col, j)]

PValCols(col, n) == [j \in 1..n |-> PValCol(col, j - 1)]

\* these_p_vals.astype(float).mean(axis=1)
MeanAxis1(df, names) ==
  [r \in 1..Len(df.index) |->
     RowMean([j \in 1..Len(names) |-> df.cols[names[j]][r]])]

\* A drop that is not done in place.
DropNothing(cols, names) == cols

\* pval_df.drop(p_val_cols, axis=1, inplace=True)
Drop(cols, names) == [c \in DOMAIN cols \ Range(names) |-> cols[c]]

\* The loop of average_pvals over the variables left in names; the table
\* is changed in place, so an exception leaves it as far as it got.
RECURSIVE AverageLoop(_, _, _)
AverageLoop(df, names, n) ==
  IF names = <<>> THEN [df |-> df, err |-> "none"]
  ELSE LET col == Head(names)
           p_val_cols == PValCols(col, n)
       IN IF ~(Range(p_val_cols) \subseteq DOMAIN df.cols)
          THEN [df |-> df, err |-> "KeyError"]
          ELSE LET avg == MeanAxis1(df, p_val_cols)
                   added == [c \in DOMAIN df.cols \cup {AvgCol(col)} |->
                               IF c = AvgCol(col) THEN avg ELSE df.cols[c]]
               IN AverageLoop([df EXCEPT !.cols = Drop(added, p_val_cols)],
                              Tail(names), n)

AveragePvals(df, n) == AverageLoop(df, VarNames, n)

\* ------------------------------------------------------- find_p_vals
\* A float division: a zero total gives NaN.
PValueFloat(count, total) ==
  IF total = 0 THEN NaN ELSE <<count, total>>

\* count / total of line 93: two Python ints, so a zero total raises.
PValue(count, total) ==
  IF total = 0 THEN ZeroDivisionError ELSE <<count, total>>

\* synth_aggs[synth_aggs.abs()[col] > aggs.abs()[col]].shape[0]: the two
\* columns are compared label by label, and the rows of the permuted
\* aggregate where the comparison holds are counted.
ExceedCount(synth, true, col) ==
  Cardinality({n \in 1..Len(synth.index) :
                 AbsGreater(synth.cols[col][n], true.cols[col][n])})

\* A column that compares every true mean with all permuted means.
PValColumnPooled(synth, true, col, p) ==
  [n \in 1..Len(true.index) |->
     <<Cardinality({m \in 1..Len(synth.index) :
                      AbsGreater(synth.cols[col][m], true.cols[col][n])}),
       Len(synth.index)>>]

\* The column aggs.loc[:, col+'_p_'+str(i)] receives: the scalar p on
\* every row of the true aggregate.
PValColumn(synth, true, col, p) == [n \in 1..Len(true.index) |-> p]

\* The loop of line 92 over the variables left in names.  Comparing two
\* Series whose indexes differ raises ValueError.
RECURSIVE PValLoop(_, _, _, _)
PValLoop(true, synth, names, it) ==
  IF names = <<>> THEN [aggs |-> true, err |-> "none"]
  ELSE LET col == Head(names)
       IN IF synth.index # true.index
          THEN [aggs |-> true, err |-> "ValueError"]
          ELSE LET p == PValue(ExceedCount(synth, true, col),
                               Len(synth.index))
               IN IF p = ZeroDivisionError
                  THEN [aggs |-> true, err |-> "ZeroDivisionError"]
                  ELSE PValLoop(
                         [true EXCEPT !.cols =
                            [c \in DOMAIN true.cols \cup {PValCol(col, it)} |->
                               IF c = PValCol(col, it)
                               THEN PValColumn(synth, true, col, p)
                               ELSE true.cols[c]]],
                         synth, Tail(names), it)

\* ------------------------------------------------------------ inputs
\* A household table of n rows: MAFID numbers the rows, every household
\* lies in a block, on a segment, and carries values for A..E.
HouseholdTable(n, blk, tl) ==
  [c \in {"MAFID", "BLKID", "TLID"} \cup VarSet |->
     [r \in 1..n |->
        CASE c = "MAFID" -> r
          [] c = "BLKID" -> blk[r]
          [] c = "TLID" -> tl[r]
          [] OTHER -> Profiles[2 - (r % 2)][c]]]

HouseholdTables ==
  UNION { { HouseholdTable(n, blk, tl) :
              blk \in [1..n -> BLKIDs], tl \in [1..n -> TLIDs] } :
          n \in 0..MaxRows }

NoTable == [index |-> <<>>, cols |-> <<>>]

\* The generators are seeded from the system when the modules are
\* imported: the call starts with numpy's generator in any state; the
\* state of the random module, which no draw ever reads, starts at a
\* value no seed of the model produces.
InitCommon ==
  /\ data \in HouseholdTables
  /\ input = data
  /\ npRandom \in 0..(RngStates - 1)
  /\ pyRandom = RngStates - 1
  /\ aggs = NoTable
  /\ synth_aggs = NoTable
  /\ i = 0
  /\ err = "none"
  /\ pval_df = NoTable
  /\ k = 0

\* ------------------------------------------ find_p_vals, step by step
Init ==
  /\ InitCommon
  /\ iterations \in 0..MaxIter
  /\ pc = "call"

\* line 87: the true aggregate.
FindPValsBegin ==
  /\ pc = "call"
  /\ aggs' = GroupMean(data, "TLID")
  /\ i' = 0
  /\ pc' = "loop"
  /\ UNCHANGED <<data, input, iterations, npRandom, pyRandom, synth_aggs,
                 err, pval_df, k>>

\* lines 90-93: one pass of the loop over the iterations.
FindPValsIter ==
  /\ pc = "loop"
  /\ i < iterations
  /\ PermuteHouses(data, i)
  /\ synth_aggs' = GroupMean(data', PermCol(i))
  /\ LET res == PValLoop(aggs, synth_aggs', VarNames, i)
     IN /\ aggs' = res.aggs
        /\ err' = res.err
        /\ IF res.err = "none"
           THEN i' = i + 1 /\ pc' = "loop"
           ELSE i' = i /\ pc' = "raised"
  /\ UNCHANGED <<input, iterations, pval_df, k>>

\* lines 95-96: the loop is over; average and return.
FindPValsReturn ==
  /\ pc = "loop"
  /\ i = iterations
  /\ LET res == AveragePvals(aggs, iterations)
     IN /\ aggs' = res.df
        /\ err' = res.err
        /\ pc' = IF res.err = "none" THEN "returned" ELSE "raised"
  /\ UNCHANGED <<data, input, iterations, npRandom, pyRandom, synth_aggs, i,
                 pval_df, k>>

\* The caller hands the table find_p_vals returned to average_pvals,
\* with the iteration count of the find_p_vals call.
AverageAgain ==
  /\ pc = "returned"
  /\ LET res == AveragePvals(aggs, iterations)
     IN /\ pval_df' = res.df
        /\ err' = res.err
  /\ k' = iterations
  /\ pc' = "averaged"
  /\ UNCHANGED <<data, input, iterations, npRandom, pyRandom, aggs,
                 synth_aggs, i>>

Next == FindPValsBegin \/ FindPValsIter \/ FindPValsReturn \/ AverageAgain

Spec == Init /\ [][Next]_vars

\* --------------------------------------- permute_houses, called directly
\* The caller permutes the table under seeds of its choice; between the
\* calls other code draws from numpy's generator (as line 108 does).
InitPermute ==
  /\ InitCommon
  /\ iterations = 0
  /\ pc = "permute"

PermuteCall(seed) ==
  /\ pc = "permute"
  /\ PermuteHouses(data, seed)
  /\ UNCHANGED <<input, iterations, aggs, synth_aggs, i, pc, err, pval_df, k>>

NpRandomCall ==
  /\ pc = "permute"
  /\ npRandom' = RngStep(npRandom)
  /\ UNCHANGED <<data, input, iterations, pyRandom, aggs, synth_aggs, i, pc,
                 err, pval_df, k>>

NextPermute == (\E seed \in 0..MaxSeed : PermuteCall(seed)) \/ NpRandomCall

SpecPermute == InitPermute /\ [][NextPermute]_vars

\* ---------------------------------------- average_pvals, called directly
\* The p-values a per-iteration column can hold.
PValues == {<<0, 2>>, <<1, 2>>, <<2, 2>>}

\* A p-value table with n per-iteration columns for every variable: the
\* true means, and in column <v>_p_<j> of row r the p-value g[r][j + 1]
\* for the variables A, C, E and its complement for B and D.
PValueTable(keys, n, g) ==
  [index |-> keys,
   cols |->
     [c \in VarSet \cup {PValCol(v, j) : v \in VarSet, j \in 0..(n - 1)} |->
        [r \in 1..Len(keys) |->
           IF c \in VarSet THEN <<r, 1>>
           ELSE LET j == CHOOSE j \in 0..(n - 1) :
                           \E v \in VarSet : c = PValCol(v, j)
                IN IF c \in {PValCol(v, j) : v \in {"A", "C", "E"}}
                   THEN g[r][j + 1]
                   ELSE <<2 - g[r][j + 1][1], 2>>]]]

PValueTables(n) ==
  UNION { { PValueTable(SortedSeq(1..m), n, g) :
              g \in [1..m -> [1..n -> PValues]] } : m \in 1..2 }

InitAverage ==
  /\ data = HouseholdTable(0, <<>>, <<>>)
  /\ input = data
  /\ npRandom = 0
  /\ pyRandom = RngStates - 1
  /\ iterations \in 0..MaxIter
  /\ aggs \in PValueTables(iterations)
  /\ pval_df = aggs
  /\ synth_aggs = NoTable
  /\ i = iterations
  /\ err = "none"
  /\ k = 0
  /\ pc = "average"

\* average_pvals(pval_df, iterations=n); the table is changed in place.
AverageCall(n) ==
  /\ pc = "average"
  /\ LET res == AveragePvals(pval_df, n)
     IN /\ pval_df' = res.df
        /\ err' = res.err
  /\ k' = n
  /\ pc' = "averaged"
  /\ UNCHANGED <<data, input, iterations, npRandom, pyRandom, aggs,
                 synth_aggs, i>>

NextAverage == \E n \in 0..(MaxIter + 1) : AverageCall(n)

SpecAverage == InitAverage /\ [][NextAverage]_vars

\* ================================================================ claims
\* The new columns of the household table.
NewColumns == DOMAIN data \ DOMAIN input

\* How often value t occurs in column c among the rows of block b.
CountIn(c, b, t) ==
  Cardinality({r \in 1..NRows(data) :
                 data["BLKID"][r] = b /\ data[c][r] = t})

\* C1: every permuted column the table holds is a permutation within the
\* blocks: in every block, every segment key occurs in the permuted column
\* as often as in TLID.
C1_WithinBlockPermutation ==
  \A c \in NewColumns : \A b \in BLKIDs : \A t \in TLIDs :
    CountIn(c, b, t) = CountIn("TLID", b, t)

\* C1 witness: two blocks with different segment keys, and a permuted
\* column that moved keys inside a block.
C1_Witness ==
  /\ PermCol(0) \in DOMAIN data
  /\ data[PermCol(0)] # data["TLID"]
  /\ \E r1, r2 \in 1..NRows(data) :
       /\ data["BLKID"][r1] # data["BLKID"][r2]
       /\ \A r \in 1..NRows(data) :
            data["BLKID"][r] = data["BLKID"][r1] =>
              data["TLID"][r] # data["TLID"][r2]

\* C2: a column written under a seed is reproduced by every later call
\* with that seed: once TLID_permuted_<seed> is in the table, no step
\* changes it.
C2_SeedDeterminesColumn ==
  [][\A seed \in 0..MaxSeed :
       PermCol(seed) \in DOMAIN data =>
         data'[PermCol(seed)] = data[PermCol(seed)]]_vars

\* An iteration of the loop of find_p_vals has run.
IterationRan == pc \in {"loop", "raised", "returned", "averaged"} /\
                (i >= 1 \/ pc = "raised")

\* C9: in every iteration the permuted aggregate has the row keys of the
\* true aggregate, in the same order, so the label-by-label comparison
\* never raises.
C9_SameRowKeys ==
  /\ err # "ValueError"
  /\ \A c \in NewColumns : Range(data[c]) = Range(data["TLID"])
  /\ IterationRan =>
       /\ synth_aggs.index = aggs.index
       /\ Range(aggs.index) = Range(input["TLID"])

\* C9 witness: an iteration over a table with three segments whose keys
\* were moved between households.
C9_Witness ==
  /\ IterationRan
  /\ Len(aggs.index) = 3
  /\ data[PermCol(0)] # data["TLID"]

\* The p-value the pooled comparison gives row t of the true aggregate
\* for variable v: the share of the rows of the permuted aggregate whose
\* mean exceeds, in magnitude, the true mean of row t.
PooledPValue(v, t) ==
  <<Cardinality({r \in 1..Len(synth_aggs.index) :
                   AbsGreater(synth_aggs.cols[v][r], aggs.cols[v][t])}),
    Len(synth_aggs.index)>>

\* C3: after iteration i-1, the p-value stored for every variable and
\* every row of the true aggregate is the pooled p-value of that row.
C3_PooledComparison ==
  (pc = "loop" /\ i >= 1) =>
    \A v \in VarSet : \A t \in 1..Len(aggs.index) :
      aggs.cols[PValCol(v, i - 1)][t] = PooledPValue(v, t)

AvgCols == {AvgCol(v) : v \in VarSet}

\* The table holds the true means and one averaged column per variable,
\* no per-iteration column, and one row per segment key of the input.
AveragedShape(df) ==
  /\ DOMAIN df.cols = VarSet \cup AvgCols
  /\ df.index = SortedSeq(Range(input["TLID"]))
  /\ \A c \in DOMAIN df.cols : Len(df.cols[c]) = Len(df.index)

\* C4 as claimed: average_pvals, run with the same N on the table
\* find_p_vals returned, succeeds and leaves the averaged shape.
C4_AverageAfterFindSucceeds ==
  (pc = "averaged" /\ iterations >= 1) =>
    (err = "none" /\ AveragedShape(pval_df))

\* C4 as amended: find_p_vals averages before it returns: the table it
\* returns has the averaged shape, and average_pvals run on it with the
\* same N >= 1 raises KeyError and leaves the table as it was.
C4_FindReturnsAveraged ==
  /\ (pc = "returned" /\ iterations >= 1) => AveragedShape(aggs)
  /\ (pc = "averaged" /\ iterations >= 1) =>
       (err = "KeyError" /\ pval_df = aggs /\ AveragedShape(aggs))

\* C4 witness: the second averaging of a table with two segments failed.
C4_Witness ==
  /\ pc = "averaged"
  /\ iterations >= 2
  /\ err = "KeyError"
  /\ Len(aggs.index) >= 2

IsFraction(p) == p # NaN /\ p # ZeroDivisionError

\* C6: for a non-empty table and N >= 1, every per-iteration p-value is
\* k/M with 0 <= k <= M, M the row count of the permuted aggregate, and
\* every averaged p-value lies in [0, 1].
C6_PValuesInUnitInterval ==
  (NRows(input) > 0 /\ iterations >= 1) =>
    \A c \in DOMAIN aggs.cols \ VarSet : \A r \in 1..Len(aggs.index) :
      LET p == aggs.cols[c][r]
      IN /\ IsFraction(p)
         /\ 0 <= p[1]
         /\ p[1] <= p[2]
         /\ p[2] > 0
         /\ c \notin AvgCols => p[2] = Len(synth_aggs.index)

\* C6 witness: a returned table that holds an averaged p-value strictly
\* between 0 and 1.
C6_Witness ==
  /\ pc = "returned"
  /\ iterations >= 2
  /\ \E r \in 1..Len(aggs.index) :
       LET p == aggs.cols[AvgCol("A")][r]
       IN 0 < p[1] /\ p[1] < p[2]

\* The columns the table was handed in with are all there, unchanged.
Frame == \A c \in DOMAIN input : c \in DOMAIN data /\ data[c] = input[c]

PermCols(n) == {PermCol(j) : j \in 0..(n - 1)}

\* C7 as claimed: when the call is over, the table has its old columns
\* unchanged and exactly the N new columns TLID_permuted_0..N-1.
C7_ExactlyNColumns ==
  pc \in {"returned", "raised"} =>
    /\ Frame
    /\ NewColumns = PermCols(iterations)
    /\ Cardinality(NewColumns) = iterations

\* C7 as amended: the old columns never change; a call that returns has
\* added exactly the N columns TLID_permuted_0..N-1; a call that raises
\* (the table is empty) has added TLID_permuted_0 alone.
C7_ColumnsOfReturningCall ==
  /\ Frame
  /\ pc = "returned" =>
       (NewColumns = PermCols(iterations) /\
        Cardinality(NewColumns) = iterations)
  /\ pc = "raised" => (NRows(input) = 0 /\ NewColumns = PermCols(1))
  /\ pc = "loop" => NewColumns = PermCols(i)

\* C7 witness: a call with N >= 2 on a table of several rows returned.
C7_Witness ==
  /\ pc = "returned"
  /\ iterations >= 2
  /\ NRows(input) >= 2
  /\ data[PermCol(1)] # data["TLID"]

\* C8: on an empty table with N >= 1 the call never returns: it stands
\* before the first iteration or has raised ZeroDivisionError, and the
\* aggregate never gets a p-value column.
C8_EmptyTableRaises ==
  (NRows(input) = 0 /\ iterations >= 1) =>
    /\ pc \in {"call", "loop", "raised"}
    /\ pc = "loop" => i = 0
    /\ pc = "raised" => err = "ZeroDivisionError"
    /\ DOMAIN aggs.cols \subseteq VarSet

\* C8 witness: the call on the empty table has raised.
C8_Witness ==
  /\ NRows(input) = 0
  /\ iterations >= 1
  /\ pc = "raised"
  /\ err = "ZeroDivisionError"
  /\ Len(synth_aggs.index) = 0

\* C10: every p-value column of the aggregate, per iteration or
\* averaged, holds the same value on all rows.
C10_ConstantColumns ==
  \A c \in DOMAIN aggs.cols \ VarSet :
    \A r1, r2 \in 1..Len(aggs.index) : aggs.cols[c][r1] = aggs.cols[c][r2]

\* C10 witness: an iteration after which the pooled comparison would
\* have given two rows different p-values.
C10_Witness ==
  /\ pc = "loop"
  /\ i >= 1
  /\ \E t1, t2 \in 1..Len(aggs.index) :
       PooledPValue("A", t1) # PooledPValue("A", t2)

\* The per-iteration columns of iterations lo..hi-1.
IterCols(lo, hi) == {PValCol(v, j) : v \in VarSet, j \in lo..(hi - 1)}

RECURSIVE SumOfNumerators(_, _, _, _)
SumOfNumerators(df, v, r, n) ==
  IF n = 0 THEN 0
  ELSE df.cols[PValCol(v, n - 1)][r][1] + SumOfNumerators(df, v, r, n - 1)

\* C5 as claimed: average_pvals called with a count k other than the
\* number N of per-iteration columns raises KeyError.
C5_MismatchRaises ==
  (pc = "averaged" /\ k # iterations) => err = "KeyError"

\* C5 as amended: with k > N the call raises KeyError and leaves the
\* table untouched; with k < N it raises nothing: it returns the table
\* with the mean of the first k columns of every variable (NaN for k = 0)
\* and with the columns of the iterations k..N-1 still in it.
C5_MismatchRaisesOnlyWhenLarger ==
  pc = "averaged" =>
    /\ k > iterations => (err = "KeyError" /\ pval_df = aggs)
    /\ k <= iterations =>
         /\ err = "none"
         /\ pval_df.index = aggs.index
         /\ DOMAIN pval_df.cols =
              VarSet \cup AvgCols \cup IterCols(k, iterations)
         /\ \A c \in VarSet \cup IterCols(k, iterations) :
              pval_df.cols[c] = aggs.cols[c]
         /\ \A v \in VarSet : \A r \in 1..Len(aggs.index) :
              LET p == pval_df.cols[AvgCol(v)][r]
              IN IF k = 0 THEN p = NaN
                 ELSE /\ IsFraction(p)
                      /\ p[2] > 0
                      /\ p[1] * 2 * k = p[2] * SumOfNumerators(aggs, v, r, k)

\* C5 witness: a call with 1 <= k < N returned, and the columns it
\* averaged differ from those it left behind.
C5_Witness ==
  /\ pc = "averaged"
  /\ 1 <= k
  /\ k < iterations
  /\ err = "none"
  /\ aggs.cols[PValCol("A", 0)] # aggs.cols[PValCol("A", iterations - 1)]

====
